---- MODULE Spec2Model ----
(***************************************************************************)
(* A model of src/extraction_text.py: the geometric line reconstruction    *)
(* extract_structured_text (with get_directional_distances) and the page   *)
(* loop extract_text_from_pdf.                                             *)
(*                                                                         *)
(* Coordinates are integers.  The code halves the sum of two edges to get  *)
(* a centre; the model keeps the sums, so every distance below is TWICE    *)
(* the code's distance and is compared with twice the threshold.  All the  *)
(* code does with distances is compare them, so the doubling changes no    *)
(* outcome.  A word is identified by its 1-based position in the sorted    *)
(* list `words` (the code holds references to the word dicts).             *)
(***************************************************************************)
EXTENDS Integers, Sequences, FiniteSets

VARIABLES
    page_words,     \* what page.extract_words returned (line 68)
    threshold,      \* the threshold argument (line 48)
    words,          \* the sorted list (line 73)
    groups,         \* finished groups, each a sequence of word positions (line 75)
    processed,      \* positions already used (line 76)
    i,              \* position of the outer for loop (line 79)
    current_word,   \* the anchor of the neighbour search (lines 79, 128, 134)
    current_group,  \* the group being built (lines 84, 127, 133)
    pc,             \* where extract_structured_text stands
    last_step,      \* history: what the last pass of the while loop did
    n_seeded,       \* history: number of groups started at line 84
    n_chained,      \* history: number of passes that reached line 122
    n_passes,       \* history: number of passes of the while loop begun
    xpc,            \* where extract_text_from_pdf stands
    n_pages,        \* len(pdf.pages) of the opened document
    page_no,        \* i of line 165, 0-based
    full_text,      \* the accumulated output (line 161), a sequence of pieces
    exc,            \* the exception in flight, or "none"
    result          \* what extract_text_from_pdf returned

rvars == <<page_words, threshold, words, groups, processed, i, current_word,
           current_group, pc, last_step, n_seeded, n_chained, n_passes>>
xvars == <<xpc, n_pages, page_no, full_text, exc, result>>
vars == <<page_words, threshold, words, groups, processed, i, current_word,
          current_group, pc, last_step, n_seeded, n_chained, n_passes,
          xpc, n_pages, page_no, full_text, exc, result>>

----------------------------------------------------------------------------
(* Bounds of the model.                                                    *)

MaxWords == 3
MaxX == 1
MaxTop == 1
MaxThreshold == 1
MaxPages == 2
MaxTextLen == 2
MaxPageWords == 2

(* threshold=15 of line 48, the value extract_text_from_pdf relies on.     *)
default_threshold == 15

(* Word boxes: left edge x0, right edge x1, top, bottom.  Two widths, so   *)
(* that the order of the left edges is not the order of the centres.       *)
Widths == {1, 2}

Boxes ==
    {[x0 |-> x, x1 |-> x + w, top |-> t, bottom |-> t + 1] :
        x \in 0..MaxX, w \in Widths, t \in 0..MaxTop}

InputLists == UNION {[1..n -> Boxes] : n \in 0..MaxWords}

(* Three words with centres A=(0,0), B=(20,0), C=(0,30).                   *)
ScenarioABC ==
    << [x0 |-> -2, x1 |-> 2,  top |-> -1, bottom |-> 1],
       [x0 |-> 18, x1 |-> 22, top |-> -1, bottom |-> 1],
       [x0 |-> -2, x1 |-> 2,  top |-> 29, bottom |-> 31] >>

Inputs ==
    {<<ws, th>> : ws \in InputLists, th \in 0..MaxThreshold}
        \cup {<<ScenarioABC, default_threshold>>}

----------------------------------------------------------------------------
(* get_directional_distances, lines 25-46.                                 *)

Abs(n) == IF n < 0 THEN -n ELSE n

(* <<twice the horizontal distance, twice the vertical distance>> of the   *)
(* two box centres.                                                        *)
get_directional_distances(word1, word2) ==
    << Abs((word2.x0 + word2.x1) - (word1.x0 + word1.x1)),
       Abs((word2.top + word2.bottom) - (word1.top + word1.bottom)) >>

----------------------------------------------------------------------------
(* sorted(...), lines 73, 131 and 138: a stable sort.                      *)

(* The key of line 73, (top, x0), compared as Python compares tuples.      *)
KeyTopX0LessEq(a, b) == a.top < b.top \/ (a.top = b.top /\ a.x0 <= b.x0)

RECURSIVE InsertByTopX0(_, _)
InsertByTopX0(s, w) ==
    IF s = <<>> THEN <<w>>
    ELSE IF KeyTopX0LessEq(s[Len(s)], w) THEN Append(s, w)
    ELSE Append(InsertByTopX0(SubSeq(s, 1, Len(s) - 1), w), s[Len(s)])

RECURSIVE SortByTopX0(_)
SortByTopX0(ws) ==
    IF ws = <<>> THEN <<>>
    ELSE InsertByTopX0(SortByTopX0(SubSeq(ws, 1, Len(ws) - 1)), ws[Len(ws)])

RECURSIVE InsertByX0(_, _, _)
InsertByX0(ws, s, k) ==
    IF s = <<>> THEN <<k>>
    ELSE IF ws[s[Len(s)]].x0 <= ws[k].x0 THEN Append(s, k)
    ELSE Append(InsertByX0(ws, SubSeq(s, 1, Len(s) - 1), k), s[Len(s)])

(* sorted(current_group, key=lambda w: w['x0']) on a group of positions.   *)
RECURSIVE SortByX0(_, _)
SortByX0(ws, g) ==
    IF g = <<>> THEN <<>>
    ELSE InsertByX0(ws, SortByX0(ws, SubSeq(g, 1, Len(g) - 1)), g[Len(g)])

(* A group left as it was built: what lines 131 and 138 would do without   *)
(* the sort.                                                               *)
UnsortedGroup(ws, g) == g

(* Lines 131-132 and 138-139: sort the group, append it to groups.         *)
SortedGroup(ws, g) == SortByX0(ws, g)

----------------------------------------------------------------------------
(* The neighbour scan, lines 89-115.                                       *)

(* float('inf') is the empty tuple, a finite distance d is <<d>>.          *)
Inf == <<>>

LessThan(d, m) == m = Inf \/ d < m[1]

MinDist(a, b) ==
    IF a = Inf THEN b ELSE IF b = Inf THEN a ELSE IF a[1] <= b[1] THEN a ELSE b

(* m > threshold, m twice a distance or inf.                               *)
Exceeds(m, th) == m = Inf \/ m[1] > 2 * th

(* Lines 89-93; closest_idx 0 is None.                                     *)
ScanStart ==
    [closest_idx |-> 0, min_horizontal_dist |-> Inf,
     min_vertical_dist |-> Inf, is_horizontal |-> TRUE]

(* Lines 101-115 for one candidate j.                                      *)
ScanCandidate(ws, cur, j, acc) ==
    LET d == get_directional_distances(ws[cur], ws[j])
        h_dist == d[1]
        v_dist == d[2]
    IN  IF h_dist < v_dist /\ LessThan(h_dist, acc.min_horizontal_dist)
        THEN [acc EXCEPT !.min_horizontal_dist = <<h_dist>>,
                         !.closest_idx = j,
                         !.is_horizontal = TRUE]
        ELSE IF LessThan(v_dist, acc.min_vertical_dist)
        THEN [acc EXCEPT !.min_vertical_dist = <<v_dist>>,
                         !.closest_idx = j,
                         !.is_horizontal = FALSE]
        ELSE acc

(* The for loop of lines 96-115, from candidate j on.                      *)
RECURSIVE ScanLoop(_, _, _, _, _)
ScanLoop(ws, proc, cur, j, acc) ==
    IF j > Len(ws) THEN acc
    ELSE ScanLoop(ws, proc, cur, j + 1,
                  IF j \in proc THEN acc ELSE ScanCandidate(ws, cur, j, acc))

Scan(ws, proc, cur) == ScanLoop(ws, proc, cur, 1, ScanStart)

(* The test of line 118.                                                   *)
Stops(s, th) ==
    s.closest_idx = 0
        \/ Exceeds(MinDist(s.min_horizontal_dist, s.min_vertical_dist), th)

----------------------------------------------------------------------------
(* One pass of the while loop, lines 88-134, on a frame                    *)
(* [groups, processed, current_word, current_group, brk].                  *)

(* processed left as it is: line 122 missing.                              *)
NotMarked(proc, idx) == proc

(* Line 122 (and line 85).                                                 *)
MarkProcessed(proc, idx) == proc \cup {idx}

(* Lines 127-128.                                                          *)
AppendHorizontal(ws, f, idx) ==
    [f EXCEPT !.current_group = Append(@, idx), !.current_word = idx]

(* Lines 133-134 alone: the group being built is dropped, not kept.        *)
JumpDroppingGroup(ws, f, idx) ==
    [f EXCEPT !.current_group = <<idx>>, !.current_word = idx]

(* Lines 131-134.                                                          *)
JumpVertical(ws, f, idx) ==
    [f EXCEPT !.groups = Append(@, SortedGroup(ws, f.current_group)),
              !.current_group = <<idx>>,
              !.current_word = idx]

WhileBody(ws, th, f) ==
    LET s == Scan(ws, f.processed, f.current_word)
    IN  IF Stops(s, th) THEN [f EXCEPT !.brk = TRUE]
        ELSE LET g == [f EXCEPT !.processed = MarkProcessed(@, s.closest_idx)]
             IN  IF s.is_horizontal
                 THEN AppendHorizontal(ws, g, s.closest_idx)
                 ELSE JumpVertical(ws, g, s.closest_idx)

(* Lines 137-139, after the loop.                                          *)
AfterLoop(ws, f) ==
    IF f.current_group # <<>>
    THEN Append(f.groups, SortedGroup(ws, f.current_group))
    ELSE f.groups

(* Lines 84-85: word k starts a group.                                     *)
SeedFrame(gs, proc, k) ==
    [groups |-> gs, processed |-> MarkProcessed(proc, k),
     current_word |-> k, current_group |-> <<k>>, brk |-> FALSE]

----------------------------------------------------------------------------
(* extract_structured_text as a state machine.                             *)

Frame ==
    [groups |-> groups, processed |-> processed,
     current_word |-> current_word, current_group |-> current_group,
     brk |-> FALSE]

NoStep == [kind |-> "none", anchor |-> 0, cand |-> 0]

NoExc == [type |-> "none", at |-> "none"]

XInitIdle ==
    /\ xpc = "idle" /\ n_pages = 0 /\ page_no = 0 /\ full_text = <<>>
    /\ exc = NoExc /\ result = <<>>

Init ==
    /\ \E inp \in Inputs : page_words = inp[1] /\ threshold = inp[2]
    /\ words = <<>> /\ groups = <<>> /\ processed = {} /\ i = 0
    /\ current_word = 0 /\ current_group = <<>>
    /\ pc = "call" /\ last_step = NoStep /\ n_seeded = 0 /\ n_chained = 0
    /\ n_passes = 0
    /\ XInitIdle

(* Lines 68-70: no words, return [].                                       *)
ReturnEmpty ==
    /\ pc = "call" /\ page_words = <<>>
    /\ pc' = "return"
    /\ UNCHANGED <<page_words, threshold, words, groups, processed, i,
                   current_word, current_group, last_step, n_seeded, n_chained,
                   n_passes>>
    /\ UNCHANGED xvars

(* Lines 73-76.                                                            *)
SortWords ==
    /\ pc = "call" /\ page_words # <<>>
    /\ words' = SortByTopX0(page_words)
    /\ groups' = <<>> /\ processed' = {} /\ i' = 1
    /\ pc' = "for"
    /\ UNCHANGED <<page_words, threshold, current_word, current_group,
                   last_step, n_seeded, n_chained, n_passes>>
    /\ UNCHANGED xvars

(* Lines 79-81: a word already used is skipped.                            *)
ForSkip ==
    /\ pc = "for" /\ i <= Len(words) /\ i \in processed
    /\ i' = i + 1
    /\ UNCHANGED <<page_words, threshold, words, groups, processed,
                   current_word, current_group, pc, last_step, n_seeded,
                   n_chained, n_passes>>
    /\ UNCHANGED xvars

(* Lines 79-85: the next unused word starts a group.                       *)
ForSeed ==
    /\ pc = "for" /\ i <= Len(words) /\ i \notin processed
    /\ LET f == SeedFrame(groups, processed, i)
       IN  /\ processed' = f.processed
           /\ current_word' = f.current_word
           /\ current_group' = f.current_group
    /\ n_seeded' = n_seeded + 1
    /\ last_step' = [kind |-> "seed", anchor |-> 0, cand |-> i]
    /\ pc' = "while"
    /\ UNCHANGED <<page_words, threshold, words, groups, i, n_chained,
                   n_passes>>
    /\ UNCHANGED xvars

(* Line 141.                                                               *)
ForEnd ==
    /\ pc = "for" /\ i > Len(words)
    /\ pc' = "return"
    /\ UNCHANGED <<page_words, threshold, words, groups, processed, i,
                   current_word, current_group, last_step, n_seeded, n_chained,
                   n_passes>>
    /\ UNCHANGED xvars

(* Lines 89-119 and 137-139: the scan stops the loop, the group is         *)
(* finished, the for loop goes on.                                         *)
WhileBreak ==
    /\ pc = "while"
    /\ LET s == Scan(words, processed, current_word)
           f == WhileBody(words, threshold, Frame)
       IN  /\ f.brk
           /\ groups' = AfterLoop(words, f)
           /\ last_step' = [kind |-> "break", anchor |-> current_word,
                            cand |-> s.closest_idx]
    /\ i' = i + 1
    /\ n_passes' = n_passes + 1
    /\ pc' = "for"
    /\ UNCHANGED <<page_words, threshold, words, processed, current_word,
                   current_group, n_seeded, n_chained>>
    /\ UNCHANGED xvars

(* Lines 89-128: the chosen word is added to the current group.            *)
WhileHorizontal ==
    /\ pc = "while"
    /\ LET s == Scan(words, processed, current_word)
           f == WhileBody(words, threshold, Frame)
       IN  /\ ~f.brk /\ s.is_horizontal
           /\ groups' = f.groups /\ processed' = f.processed
           /\ current_word' = f.current_word
           /\ current_group' = f.current_group
           /\ last_step' = [kind |-> "append", anchor |-> current_word,
                            cand |-> s.closest_idx]
    /\ n_chained' = n_chained + 1
    /\ n_passes' = n_passes + 1
    /\ UNCHANGED <<page_words, threshold, words, i, pc, n_seeded>>
    /\ UNCHANGED xvars

(* Lines 89-122 and 129-134: the current group is finished and the chosen  *)
(* word starts the next one.                                               *)
WhileVertical ==
    /\ pc = "while"
    /\ LET s == Scan(words, processed, current_word)
           f == WhileBody(words, threshold, Frame)
       IN  /\ ~f.brk /\ ~s.is_horizontal
           /\ groups' = f.groups /\ processed' = f.processed
           /\ current_word' = f.current_word
           /\ current_group' = f.current_group
           /\ last_step' = [kind |-> "jump", anchor |-> current_word,
                            cand |-> s.closest_idx]
    /\ n_chained' = n_chained + 1
    /\ n_passes' = n_passes + 1
    /\ UNCHANGED <<page_words, threshold, words, i, pc, n_seeded>>
    /\ UNCHANGED xvars

----------------------------------------------------------------------------
(* extract_structured_text as one function, for its caller at line 173:    *)
(* the same loop bodies, run to the end.                                   *)

RECURSIVE RunWhile(_, _, _)
RunWhile(ws, th, f) ==
    LET r == WhileBody(ws, th, f)
    IN  IF r.brk THEN [r EXCEPT !.groups = AfterLoop(ws, r)]
        ELSE RunWhile(ws, th, r)

RECURSIVE RunFor(_, _, _, _, _)
RunFor(ws, th, k, gs, proc) ==
    IF k > Len(ws) THEN gs
    ELSE IF k \in proc THEN RunFor(ws, th, k + 1, gs, proc)
    ELSE LET r == RunWhile(ws, th, SeedFrame(gs, proc, k))
         IN  RunFor(ws, th, k + 1, r.groups, r.processed)

(* The groups as sequences of positions in the sorted list.                *)
GroupsOf(pw, th) ==
    IF pw = <<>> THEN <<>> ELSE RunFor(SortByTopX0(pw), th, 1, <<>>, {})

(* The groups as the code returns them: lists of words.                    *)
extract_structured_text(pw, th) ==
    LET ws == SortByTopX0(pw)
        gs == GroupsOf(pw, th)
    IN  [a \in 1..Len(gs) |-> [b \in 1..Len(gs[a]) |-> ws[gs[a][b]]]]

----------------------------------------------------------------------------
(* Strings are sequences of characters; str.strip and str.join.            *)

Chars == {" ", "a"}

IsSpace(c) == c = " "

RECURSIVE LStrip(_)
LStrip(s) ==
    IF s # <<>> /\ IsSpace(s[1]) THEN LStrip(Tail(s)) ELSE s

RECURSIVE RStrip(_)
RStrip(s) ==
    IF s # <<>> /\ IsSpace(s[Len(s)])
    THEN RStrip(SubSeq(s, 1, Len(s) - 1)) ELSE s

Strip(s) == RStrip(LStrip(s))

(* " ".join(word['text'] for word in group)                                *)
RECURSIVE JoinTexts(_)
JoinTexts(group) ==
    IF group = <<>> THEN <<>>
    ELSE IF Len(group) = 1 THEN group[1].text
    ELSE group[1].text \o <<" ">> \o JoinTexts(Tail(group))

Strings(n) == UNION {[1..k -> Chars] : k \in 0..n}

----------------------------------------------------------------------------
(* full_text is a sequence of pieces: a line break, the header of a page,  *)
(* a run of text, the no-text marker, an error message.                    *)

Piece(kind, page, s) == [kind |-> kind, page |-> page, s |-> s]

NL == Piece("nl", 0, <<>>)

(* f"--- Page {k} ---" with the page number of the previous page: i, not   *)
(* i+1.                                                                    *)
HeaderOffByOne(k) == Piece("header", k - 1, <<>>)

(* f"--- Page {i+1} ---", lines 170, 175 and 183; k is i+1.                *)
Header(k) == Piece("header", k, <<>>)

NoTextFound == Piece("no_text", 0, <<>>)

RECURSIVE LStripPieces(_)
LStripPieces(t) ==
    IF t # <<>> /\ t[1] = NL THEN LStripPieces(Tail(t)) ELSE t

RECURSIVE RStripPieces(_)
RStripPieces(t) ==
    IF t # <<>> /\ t[Len(t)] = NL
    THEN RStripPieces(SubSeq(t, 1, Len(t) - 1)) ELSE t

(* full_text.strip(), line 184: the only white space at either end of      *)
(* full_text is the line breaks, every run of text being stripped and not  *)
(* empty.                                                                  *)
StripPieces(t) == RStripPieces(LStripPieces(t))

(* Lines 176-180: one line per group whose joined text is not blank.       *)
RECURSIVE GroupLines(_)
GroupLines(gs) ==
    IF gs = <<>> THEN <<>>
    ELSE LET group_text == Strip(JoinTexts(gs[1]))
         IN  (IF group_text # <<>>
              THEN <<Piece("text", 0, group_text), NL>> ELSE <<>>)
                 \o GroupLines(Tail(gs))

(* Line 170.                                                               *)
NativeSection(k, text) ==
    <<NL, Header(k), NL, Piece("text", 0, Strip(text)), NL>>

(* Lines 175-180.                                                          *)
GroupsSection(k, gs) == <<NL, Header(k), NL>> \o GroupLines(gs)

(* Line 183.                                                               *)
NoTextSection(k) == <<NL, Header(k), NL, NoTextFound, NL>>

----------------------------------------------------------------------------
(* extract_text_from_pdf as a state machine.                               *)

(* What a collaborator may raise: FileNotFoundError, or another Exception. *)
ExcTypes == {"FileNotFoundError", "Exception"}

(* page.extract_text: None, or a string.                                   *)
NativeTexts ==
    {[none |-> TRUE, s |-> <<>>]}
        \cup {[none |-> FALSE, s |-> t] : t \in Strings(MaxTextLen)}

(* `text and len(text.strip()) > 0`, line 168.                             *)
HasText(t) == ~t.none /\ t.s # <<>> /\ Len(Strip(t.s)) > 0

(* The words of a page: three places (the centres of ScenarioABC), each    *)
(* word a letter or, with keep_blank_chars, a blank.                       *)
PageWords ==
    {[x0 |-> ScenarioABC[k].x0, x1 |-> ScenarioABC[k].x1,
      top |-> ScenarioABC[k].top, bottom |-> ScenarioABC[k].bottom,
      text |-> <<c>>] : k \in 1..3, c \in Chars}

PageWordLists == UNION {[1..n -> PageWords] : n \in 0..MaxPageWords}

RInitIdle ==
    /\ page_words = <<>> /\ threshold = default_threshold
    /\ words = <<>> /\ groups = <<>> /\ processed = {} /\ i = 0
    /\ current_word = 0 /\ current_group = <<>>
    /\ pc = "idle" /\ last_step = NoStep /\ n_seeded = 0 /\ n_chained = 0
    /\ n_passes = 0

(* Line 161.                                                               *)
XInit ==
    /\ xpc = "open" /\ n_pages = 0 /\ page_no = 0 /\ full_text = <<>>
    /\ exc = NoExc /\ result = <<>>
    /\ RInitIdle

(* Line 164: the document opens and has n pages.                           *)
Open ==
    /\ xpc = "open"
    /\ \E n \in 0..MaxPages : n_pages' = n
    /\ page_no' = 0
    /\ xpc' = "pages"
    /\ UNCHANGED <<full_text, exc, result>>
    /\ UNCHANGED rvars

(* Line 164: pdfplumber.open raises.                                       *)
OpenRaises ==
    /\ xpc = "open"
    /\ \E t \in ExcTypes : exc' = [type |-> t, at |-> "open"]
    /\ xpc' = "except"
    /\ UNCHANGED <<n_pages, page_no, full_text, result>>
    /\ UNCHANGED rvars

(* Lines 167-170: the page has text of its own.                            *)
PageNative ==
    /\ xpc = "pages" /\ page_no < n_pages
    /\ \E text \in NativeTexts :
          /\ HasText(text)
          /\ full_text' = full_text \o NativeSection(page_no + 1, text.s)
    /\ page_no' = page_no + 1
    /\ UNCHANGED <<xpc, n_pages, exc, result>>
    /\ UNCHANGED rvars

(* Lines 167-180: no text, the words are grouped into lines.               *)
PageGroups ==
    /\ xpc = "pages" /\ page_no < n_pages
    /\ \E text \in NativeTexts, pw \in PageWordLists :
          LET gs == extract_structured_text(pw, default_threshold)
          IN  /\ ~HasText(text)
              /\ gs # <<>>
              /\ full_text' = full_text \o GroupsSection(page_no + 1, gs)
    /\ page_no' = page_no + 1
    /\ UNCHANGED <<xpc, n_pages, exc, result>>
    /\ UNCHANGED rvars

(* Lines 167-173 and 181-183: no text and no groups.                       *)
PageNoText ==
    /\ xpc = "pages" /\ page_no < n_pages
    /\ \E text \in NativeTexts, pw \in PageWordLists :
          /\ ~HasText(text)
          /\ extract_structured_text(pw, default_threshold) = <<>>
    /\ full_text' = full_text \o NoTextSection(page_no + 1)
    /\ page_no' = page_no + 1
    /\ UNCHANGED <<xpc, n_pages, exc, result>>
    /\ UNCHANGED rvars

(* Line 167 or line 68: the page raises while it is read.                  *)
PageRaises ==
    /\ xpc = "pages" /\ page_no < n_pages
    /\ \E t \in ExcTypes, at \in {"extract_text", "extract_words"} :
          exc' = [type |-> t, at |-> at]
    /\ xpc' = "except"
    /\ UNCHANGED <<n_pages, page_no, full_text, result>>
    /\ UNCHANGED rvars

(* Line 184.                                                               *)
ReturnText ==
    /\ xpc = "pages" /\ page_no = n_pages
    /\ result' = StripPieces(full_text)
    /\ xpc' = "returned"
    /\ UNCHANGED <<n_pages, page_no, full_text, exc>>
    /\ UNCHANGED rvars

(* "Error: The file was not found. Please provide the correct file path."  *)
ErrNotFound == Piece("error_not_found", 0, <<>>)

(* f"Error: An unexpected issue occurred: {str(e)}"                        *)
ErrUnexpected(e) == Piece("error_unexpected", 0, <<e.at>>)

(* A handler that keeps what was written before the failure.               *)
HandlerKeepingText(t, e) ==
    IF e.type = "FileNotFoundError" THEN t \o <<ErrNotFound>>
    ELSE t \o <<ErrUnexpected(e)>>

(* Lines 185-188: the two except clauses; t is full_text, which neither    *)
(* uses.                                                                   *)
Handler(t, e) ==
    IF e.type = "FileNotFoundError" THEN <<ErrNotFound>>
    ELSE <<ErrUnexpected(e)>>

(* Lines 185-186.                                                          *)
ExceptNotFound ==
    /\ xpc = "except" /\ exc.type = "FileNotFoundError"
    /\ result' = Handler(full_text, exc)
    /\ xpc' = "returned"
    /\ UNCHANGED <<n_pages, page_no, full_text, exc>>
    /\ UNCHANGED rvars

(* Lines 187-188.                                                          *)
ExceptOther ==
    /\ xpc = "except" /\ exc.type # "FileNotFoundError"
    /\ result' = Handler(full_text, exc)
    /\ xpc' = "returned"
    /\ UNCHANGED <<n_pages, page_no, full_text, exc>>
    /\ UNCHANGED rvars

XNext ==
    \/ Open
    \/ OpenRaises
    \/ PageNative
    \/ PageGroups
    \/ PageNoText
    \/ PageRaises
    \/ ReturnText
    \/ ExceptNotFound
    \/ ExceptOther

SpecExtract == XInit /\ [][XNext]_vars

----------------------------------------------------------------------------
Next ==
    \/ ReturnEmpty
    \/ SortWords
    \/ ForSkip
    \/ ForSeed
    \/ ForEnd
    \/ WhileBreak
    \/ WhileHorizontal
    \/ WhileVertical

Spec == Init /\ [][Next]_vars

----------------------------------------------------------------------------
(* Properties.                                                             *)

Range(f) == {f[k] : k \in DOMAIN f}

RECURSIVE Flatten(_)
Flatten(gs) == IF gs = <<>> THEN <<>> ELSE gs[1] \o Flatten(Tail(gs))

Count(f, x) == Cardinality({k \in DOMAIN f : f[k] = x})

(* Twice the horizontal and the vertical centre distance of the words at   *)
(* positions a and c of the sorted list.                                   *)
HDist2(a, c) == get_directional_distances(words[a], words[c])[1]
VDist2(a, c) == get_directional_distances(words[a], words[c])[2]

Chained == last_step.kind \in {"append", "jump"}

(* C1: two words whose centres have the same vertical coordinate and a     *)
(* non-zero horizontal distance below threshold come back as one group     *)
(* holding both, in ascending x0.                                          *)
C1_SameRowPairIsOneGroup ==
    (/\ pc = "return"
     /\ Len(page_words) = 2
     /\ LET d == get_directional_distances(page_words[1], page_words[2])
        IN  d[2] = 0 /\ d[1] > 0 /\ d[1] < 2 * threshold)
        => /\ Len(groups) = 1
           /\ Len(groups[1]) = 2
           /\ words[groups[1][1]].x0 <= words[groups[1][2]].x0

(* C2: two words whose vertical centre distance is above threshold and     *)
(* above their horizontal centre distance come back in different groups.   *)
C2_FarApartVerticallyIsTwoGroups ==
    (/\ pc = "return"
     /\ Len(page_words) = 2
     /\ LET d == get_directional_distances(page_words[1], page_words[2])
        IN  d[2] > 2 * threshold /\ d[2] > d[1])
        => \A g \in DOMAIN groups : ~({1, 2} \subseteq Range(groups[g]))

(* C3: every group in groups, whether a vertical jump or the end of the    *)
(* while loop finished it, has its words in non-decreasing x0.             *)
C3_GroupsSortedByX0 ==
    \A g \in DOMAIN groups :
        \A a, b \in DOMAIN groups[g] :
            a < b => words[groups[g][a]].x0 <= words[groups[g][b]].x0

(* A vertical jump has just finished a group of several words that the     *)
(* sort put in another order than the order of the sorted list.            *)
C3_Witness ==
    /\ last_step.kind = "jump"
    /\ LET g == groups[Len(groups)]
       IN  /\ Len(g) >= 2
           /\ g[1] > g[2]
           /\ words[g[1]].x0 < words[g[2]].x0

(* C4: the returned groups are a partition of the input words: the sorted  *)
(* list holds the input words, every one of its positions is in exactly    *)
(* one group exactly once, no group is empty; no words give no group and   *)
(* one word gives one group holding it.                                    *)
C4_GroupsPartitionWords ==
    pc = "return" =>
        /\ Len(Flatten(groups)) = Len(page_words)
        /\ \A k \in 1..Len(page_words) : Count(Flatten(groups), k) = 1
        /\ \A g \in DOMAIN groups : groups[g] # <<>>
        /\ page_words # <<>> =>
              \A w \in Range(page_words) \cup Range(words) :
                  Count(words, w) = Count(page_words, w)
        /\ page_words = <<>> => groups = <<>>
        /\ Len(page_words) = 1 => groups = << <<1>> >>

(* Three words came back as a group of two (finished by a vertical jump or *)
(* by the end of the loop) and a group of one.                             *)
C4_Witness ==
    /\ pc = "return"
    /\ Len(page_words) = 3
    /\ Len(groups) = 2
    /\ n_chained >= 1

(* C5: the words with centres (0,0), (20,0), (0,30) and threshold 15 come  *)
(* back as three groups of one word each.                                  *)
C5_ScenarioGivesThreeSingletons ==
    (pc = "return" /\ page_words = ScenarioABC /\ threshold = default_threshold)
        => /\ Len(groups) = 3
           /\ \A g \in DOMAIN groups : Len(groups[g]) = 1

(* The page numbers of the headers in a text, in order.                    *)
RECURSIVE HeaderPages(_)
HeaderPages(t) ==
    IF t = <<>> THEN <<>>
    ELSE (IF t[1].kind = "header" THEN <<t[1].page>> ELSE <<>>)
             \o HeaderPages(Tail(t))

KindsIn(t) == {t[k].kind : k \in DOMAIN t}

(* C6: when extract_text_from_pdf returns without a failure, the text      *)
(* holds exactly one header per page, for pages 1..N in ascending order.   *)
C6_OneHeaderPerPageInOrder ==
    (xpc = "returned" /\ exc = NoExc)
        => HeaderPages(result) = [k \in 1..n_pages |-> k]

(* A document of two pages returned, one page with text and the other      *)
(* with none.                                                              *)
C6_Witness ==
    /\ xpc = "returned" /\ exc = NoExc
    /\ n_pages = 2
    /\ {"text", "no_text"} \subseteq KindsIn(result)

(* C7: a failure of the open or of a page is never raised to the caller:   *)
(* one of the two except clauses takes it, and what is returned is the     *)
(* error string of that failure alone, with nothing of the pages written   *)
(* before it.                                                              *)
C7_FailureReturnsErrorStringOnly ==
    /\ xpc = "except" => exc.type \in ExcTypes
    /\ (xpc = "returned" /\ exc # NoExc) =>
          /\ result =
                IF exc.type = "FileNotFoundError"
                THEN <<ErrNotFound>> ELSE <<ErrUnexpected(exc)>>
          /\ \A p \in Range(full_text) : p \notin Range(result)

(* A page failed after an earlier page had been written, and the call      *)
(* returned.                                                               *)
C7_Witness ==
    /\ xpc = "returned"
    /\ exc.at = "extract_words"
    /\ page_no >= 1
    /\ "header" \in KindsIn(full_text)

(* C8: a pass that chains a word adds it to the current group exactly when *)
(* its horizontal distance to the anchor is below its vertical distance,   *)
(* and starts a new group with it in every other case.                     *)
C8_AppendedIffCloserHorizontally ==
    Chained =>
        (last_step.kind = "append"
            <=> HDist2(last_step.anchor, last_step.cand)
                    < VDist2(last_step.anchor, last_step.cand))

(* C9: a word chained to the anchor is within threshold of it in the axis  *)
(* it was classified by.                                                   *)
C9_ChainedWithinThreshold ==
    /\ last_step.kind = "append" =>
          HDist2(last_step.anchor, last_step.cand) <= 2 * threshold
    /\ last_step.kind = "jump" =>
          VDist2(last_step.anchor, last_step.cand) <= 2 * threshold

(* The positions in the finished groups and, inside the while loop, in the *)
(* group being built.                                                      *)
Placed ==
    IF pc = "while" THEN Flatten(groups) \o current_group ELSE Flatten(groups)

(* C10: every pass of the while loop but the one that stops it marks one   *)
(* more word, so the passes of a call number at most the words, and a word *)
(* starts or joins a group at most once.                                   *)
C10_PassesBoundedByWords ==
    /\ n_seeded + n_chained = Cardinality(processed)
    /\ Cardinality(processed) <= Len(words)
    /\ n_passes <= n_seeded + n_chained
    /\ n_passes <= Len(page_words)
    /\ i <= Len(words) + 1
    /\ \A k \in 1..Len(words) : Count(Placed, k) = IF k \in processed THEN 1 ELSE 0

(* A call on three words that took three passes and chained twice.         *)
C10_Witness ==
    /\ pc = "return"
    /\ Len(page_words) = 3
    /\ n_passes = 3
    /\ n_chained = 2

====
